---- MODULE Spec2Model ----
(***************************************************************************)
(* Model of scripts/ghidra_export.py: the Ghidra headless script that      *)
(* exports a program's memory blocks, symbols and decompile scripts as a   *)
(* datatests XML document.  The script is one sequential run; every loop   *)
(* iteration is one action.  Document lines are sequences of characters.   *)
(***************************************************************************)
EXTENDS Integers, Sequences, FiniteSets, TLC

\* Sizes are scaled: the source reads 0x10000-byte chunks, caps a block at
\* 0x100000 bytes and wraps hex text at 64 characters; the model keeps the
\* three as independent parameters small enough to enumerate.
CHUNK == 3
MAXBLOCK == 9
LINE == 4
MaxBlocks == 2
MaxFuncs == 2

Min(a, b) == IF a < b THEN a ELSE b

(***************************************************************************)
(* The literal text of the format strings.                                 *)
(***************************************************************************)
DocOpen == <<"<","d","e","c","o","m","p","i","l","e","r","t","e","s","t",">">>
ImageOpenPre == <<"<","b","i","n","a","r","y","i","m","a","g","e"," ","a","r","c","h","=","\"">>
ImageOpenPost == <<"\"",">">>
ChunkOpenPre == <<"<","b","y","t","e","c","h","u","n","k"," ","s","p","a","c","e","=","\"","r","a","m","\""," ","o","f","f","s","e","t","=","\"","0","x">>
ChunkOpenPost == <<"\""," ","r","e","a","d","o","n","l","y","=","\"","t","r","u","e","\"",">">>
ChunkClose == <<"<","/","b","y","t","e","c","h","u","n","k",">">>
SymbolPre == <<"<","s","y","m","b","o","l"," ","s","p","a","c","e","=","\"","r","a","m","\""," ","o","f","f","s","e","t","=","\"","0","x">>
SymbolMid == <<"\""," ","n","a","m","e","=","\"">>
SymbolPost == <<"\"","/",">">>
ImageClose == <<"<","/","b","i","n","a","r","y","i","m","a","g","e",">">>
ScriptOpen == <<"<","s","c","r","i","p","t",">">>
ComLoFuPre == <<" "," ","<","c","o","m",">","l","o"," ","f","u"," ">>
ComPost == <<"<","/","c","o","m",">">>
ComDecompile == <<" "," ","<","c","o","m",">","d","e","c","o","m","p","i","l","e","<","/","c","o","m",">">>
ComPrintC == <<" "," ","<","c","o","m",">","p","r","i","n","t"," ","C","<","/","c","o","m",">">>
ComQuit == <<" "," ","<","c","o","m",">","q","u","i","t","<","/","c","o","m",">">>
ScriptClose == <<"<","/","s","c","r","i","p","t",">">>
MatchPre == <<"<","s","t","r","i","n","g","m","a","t","c","h"," ","n","a","m","e","=","\"">>
MatchMid == <<" ","o","u","t","p","u","t","\""," ","m","i","n","=","\"","1","\""," ","m","a","x","=","\"","1","0","0","\"",">">>
MatchPost == <<"<","/","s","t","r","i","n","g","m","a","t","c","h",">">>
DocClose == <<"<","/","d","e","c","o","m","p","i","l","e","r","t","e","s","t",">">>

(***************************************************************************)
(* String formatting and joining.                                          *)
(***************************************************************************)
HexDigit == <<"0","1","2","3","4","5","6","7","8","9","a","b","c","d","e","f">>

\* b & 0xff for a Java byte b in -128..127
And255(b) == b % 256

\* variant: '%x', without the zero padding
Fmt02x_nopad(v) == IF v < 16 THEN <<HexDigit[v + 1]>> ELSE <<HexDigit[(v \div 16) + 1], HexDigit[(v % 16) + 1]>>

\* '%02x' % v for 0 <= v <= 255
Fmt02x(v) == <<HexDigit[(v \div 16) + 1], HexDigit[(v % 16) + 1]>>

\* '%x' % n for n >= 0
RECURSIVE FmtX(_)
FmtX(n) == IF n < 16 THEN <<HexDigit[n + 1]>> ELSE FmtX(n \div 16) \o <<HexDigit[(n % 16) + 1]>>

\* ''.join(parts)
RECURSIVE JoinEmpty(_)
JoinEmpty(parts) == IF parts = <<>> THEN <<>> ELSE Head(parts) \o JoinEmpty(Tail(parts))

\* '\n'.join(lines)
RECURSIVE JoinNewline(_)
JoinNewline(lines) == IF lines = <<>> THEN <<>> ELSE IF Len(lines) = 1 THEN lines[1] ELSE lines[1] \o <<"\n">> \o JoinNewline(Tail(lines))

\* hex_str of a chunk: ''.join(['%02x' % (b & 0xff) for b in data])
HexStr(data) == JoinEmpty([i \in 1..Len(data) |-> Fmt02x(And255(data[i]))])

\* [hex_str[i:i+64] for i in range(0, len(hex_str), 64)]
HexLines(hex_str) == [k \in 1..((Len(hex_str) + LINE - 1) \div LINE) |-> SubSeq(hex_str, (k - 1) * LINE + 1, Min(k * LINE, Len(hex_str)))]

ArchOf(lang, cspec) == lang \o <<":">> \o cspec

ImageOpenLine(arch) == ImageOpenPre \o arch \o ImageOpenPost

ChunkOpenLine(off) == ChunkOpenPre \o FmtX(off) \o ChunkOpenPost

SymbolLine(off, name) == SymbolPre \o FmtX(off) \o SymbolMid \o name \o SymbolPost

ComLoFuLine(name) == ComLoFuPre \o name \o ComPost

MatchLine(name) == MatchPre \o name \o MatchMid \o name \o MatchPost

\* variant: print C before decompile
ScriptLines_swapped(name) == <<ScriptOpen, ComLoFuLine(name), ComPrintC, ComDecompile, ComQuit, ScriptClose, MatchLine(name)>>

\* lines 70-76: the script block and the stringmatch of one function
ScriptLines(name) == <<ScriptOpen, ComLoFuLine(name), ComDecompile, ComPrintC, ComQuit, ScriptClose, MatchLine(name)>>

(***************************************************************************)
(* The host program: memory contents, memory blocks, functions.            *)
(***************************************************************************)
\* Bytes of the program image as Java bytes, repeated over the address range;
\* the first four are de ad be ef.
MemPattern == <<-34, -83, -66, -17, 0, 10, 127, -128, -1, 16, 0, 0, 1>>

MemByte(a) == MemPattern[(a % Len(MemPattern)) + 1]

\* mem.getBytes(addr, data) into a byte array of n elements
GetBytes(addr, n) == [i \in 1..n |-> MemByte(addr + i - 1)]

BaseAddr == 9

BlockNames == <<".text", ".data", ".bss", ".rodata">>

\* the sizes of the exportable blocks: two chunks with a short last one, and the cap
RamSizes == {CHUNK + 1, MAXBLOCK}

\* exportable blocks, an oversized one, an uninitialized one, one outside ram
BlockKinds == [init : {TRUE}, space : {"ram"}, size : RamSizes \cup {MAXBLOCK + 1}] \cup {[init |-> FALSE, space |-> "ram", size |-> MAXBLOCK + 1], [init |-> TRUE, space |-> "OTHER", size |-> 2]}

RECURSIVE StartOf(_, _)
StartOf(ks, k) == IF k = 1 THEN BaseAddr ELSE StartOf(ks, k - 1) + ks[k - 1].size

MakeBlocks(ks) == [k \in 1..Len(ks) |-> [name |-> BlockNames[k], start |-> StartOf(ks, k), size |-> ks[k].size, init |-> ks[k].init, space |-> ks[k].space]]

PlainName == <<"f","o","o">>

MarkupName == <<"v","<","&","\"",">">>

\* every thunk/external combination under one name, and a second name
FuncKinds == [name : {PlainName}, thunk : BOOLEAN, external : BOOLEAN] \cup {[name |-> MarkupName, thunk |-> FALSE, external |-> FALSE]}

MakeFuncs(ks) == [k \in 1..Len(ks) |-> [name |-> ks[k].name, entry |-> 16 * k + 10, thunk |-> ks[k].thunk, external |-> ks[k].external]]

LangIds == {<<"x","8","6">>}

CspecIds == {<<"g","c","c">>}

xml_output == "exported.xml"

\* What is at the output path before the run.
StaleFile == <<"s","t","a","l","e">>

\* variant: the thunk test left out
KeepForScript_thunks(f) == ~f.external

\* line 26: [f for f in fm.getFunctions(True) if not f.isThunk() and not f.isExternal()]
KeepForScript(f) == ~f.thunk /\ ~f.external

FilterFunctions(fs) == SelectSeq(fs, KeepForScript)

\* variant: the isExternal test left out
KeepForSymbol_all(f) == TRUE

\* lines 61-62: if func.isExternal(): continue
KeepForSymbol(f) == ~f.external

VARIABLES blocks, funcs, lang_id, cspec_id, pc, xml, functions, bi, start, size, offset, fi, si, stdout, file, failure

vars == <<blocks, funcs, lang_id, cspec_id, pc, xml, functions, bi, start, size, offset, fi, si, stdout, file, failure>>

host == <<blocks, funcs, lang_id, cspec_id>>

Init ==
    /\ \E n \in 0..MaxBlocks : \E ks \in [1..n -> BlockKinds] : blocks = MakeBlocks(ks)
    /\ \E n \in 0..MaxFuncs : \E ks \in [1..n -> FuncKinds] : funcs = MakeFuncs(ks)
    /\ lang_id \in LangIds
    /\ cspec_id \in CspecIds
    /\ pc = "start"
    /\ xml = <<>>
    /\ functions = <<>>
    /\ bi = 1 /\ start = 0 /\ size = 0 /\ offset = 0
    /\ fi = 1 /\ si = 1
    /\ stdout = <<>>
    /\ file = StaleFile
    /\ failure = "none"

\* lines 26-29: the script list and the two opening tags
Setup ==
    /\ pc = "start"
    /\ functions' = FilterFunctions(funcs)
    /\ xml' = <<DocOpen, ImageOpenLine(ArchOf(lang_id, cspec_id))>>
    /\ pc' = "blocks"
    /\ UNCHANGED <<host, bi, start, size, offset, fi, si, stdout, file, failure>>

\* line 42: print("Skipping large block %s at %s (%d bytes)" % (...))
SkipMessage(b) == <<"Skipping large block", b.name, b.start, b.size>>

\* lines 33-34
SkipUninitialized ==
    /\ pc = "blocks" /\ bi <= Len(blocks)
    /\ ~blocks[bi].init
    /\ bi' = bi + 1
    /\ UNCHANGED <<host, pc, xml, functions, start, size, offset, fi, si, stdout, file, failure>>

\* variant: a non-ram block is reported like an oversized one
SkipNonRam_logged ==
    /\ pc = "blocks" /\ bi <= Len(blocks)
    /\ blocks[bi].init
    /\ blocks[bi].space # "ram"
    /\ start' = blocks[bi].start
    /\ stdout' = Append(stdout, SkipMessage(blocks[bi]))
    /\ bi' = bi + 1
    /\ UNCHANGED <<host, pc, xml, functions, size, offset, fi, si, file, failure>>

\* lines 35-39
SkipNonRam ==
    /\ pc = "blocks" /\ bi <= Len(blocks)
    /\ blocks[bi].init
    /\ blocks[bi].space # "ram"
    /\ start' = blocks[bi].start
    /\ bi' = bi + 1
    /\ UNCHANGED <<host, pc, xml, functions, size, offset, fi, si, stdout, file, failure>>

\* variant: the oversized block is skipped without the print
SkipLarge_silent ==
    /\ pc = "blocks" /\ bi <= Len(blocks)
    /\ blocks[bi].init
    /\ blocks[bi].space = "ram"
    /\ blocks[bi].size > MAXBLOCK
    /\ start' = blocks[bi].start
    /\ size' = blocks[bi].size
    /\ bi' = bi + 1
    /\ UNCHANGED <<host, pc, xml, functions, offset, fi, si, stdout, file, failure>>

\* lines 40-43
SkipLarge ==
    /\ pc = "blocks" /\ bi <= Len(blocks)
    /\ blocks[bi].init
    /\ blocks[bi].space = "ram"
    /\ blocks[bi].size > MAXBLOCK
    /\ start' = blocks[bi].start
    /\ size' = blocks[bi].size
    /\ stdout' = Append(stdout, SkipMessage(blocks[bi]))
    /\ bi' = bi + 1
    /\ UNCHANGED <<host, pc, xml, functions, offset, fi, si, file, failure>>

\* lines 35-46: an exportable block, offset = 0
BeginBlock ==
    /\ pc = "blocks" /\ bi <= Len(blocks)
    /\ blocks[bi].init
    /\ blocks[bi].space = "ram"
    /\ ~(blocks[bi].size > MAXBLOCK)
    /\ start' = blocks[bi].start
    /\ size' = blocks[bi].size
    /\ offset' = 0
    /\ pc' = "chunk"
    /\ UNCHANGED <<host, xml, functions, bi, fi, si, stdout, file, failure>>

\* variant: every read asks for a full chunk
ChunkSize_fixed(sz, off) == CHUNK

\* line 48: chunk_size = min(CHUNK, size - offset)
ChunkSize(sz, off) == Min(CHUNK, sz - off)

\* lines 48-56: the lines one chunk adds to the document
ChunkLines(addr, data) == <<ChunkOpenLine(addr)>> \o HexLines(HexStr(data)) \o <<ChunkClose>>

\* lines 47-57: one iteration of the while loop, the read succeeding
ReadChunk ==
    /\ pc = "chunk" /\ offset < size
    /\ LET chunk_size == ChunkSize(size, offset)
           addr == start + offset
           data == GetBytes(addr, chunk_size)
       IN /\ xml' = xml \o ChunkLines(addr, data)
          /\ offset' = offset + chunk_size
    /\ UNCHANGED <<host, pc, functions, bi, start, size, fi, si, stdout, file, failure>>

\* variant: the exception is caught and the chunk left out
ReadFails_swallowed ==
    /\ pc = "chunk" /\ offset < size
    /\ offset' = offset + ChunkSize(size, offset)
    /\ failure' = "read"
    /\ UNCHANGED <<host, pc, xml, functions, bi, start, size, fi, si, stdout, file>>

\* line 51: mem.getBytes raises; nothing catches it
ReadFails ==
    /\ pc = "chunk" /\ offset < size
    /\ pc' = "aborted"
    /\ failure' = "read"
    /\ UNCHANGED <<host, xml, functions, bi, start, size, offset, fi, si, stdout, file>>

\* line 47: the while condition is false, on to the next block
EndBlock ==
    /\ pc = "chunk" /\ ~(offset < size)
    /\ bi' = bi + 1
    /\ pc' = "blocks"
    /\ UNCHANGED <<host, xml, functions, start, size, offset, fi, si, stdout, file, failure>>

\* line 32: the block iterator is exhausted
BlocksDone ==
    /\ pc = "blocks" /\ bi > Len(blocks)
    /\ pc' = "symbols"
    /\ UNCHANGED <<host, xml, functions, bi, start, size, offset, fi, si, stdout, file, failure>>

\* lines 60-62
SkipExternal ==
    /\ pc = "symbols" /\ fi <= Len(funcs)
    /\ ~KeepForSymbol(funcs[fi])
    /\ fi' = fi + 1
    /\ UNCHANGED <<host, pc, xml, functions, bi, start, size, offset, si, stdout, file, failure>>

\* lines 60-63
EmitSymbol ==
    /\ pc = "symbols" /\ fi <= Len(funcs)
    /\ KeepForSymbol(funcs[fi])
    /\ xml' = Append(xml, SymbolLine(funcs[fi].entry, funcs[fi].name))
    /\ fi' = fi + 1
    /\ UNCHANGED <<host, pc, functions, bi, start, size, offset, si, stdout, file, failure>>

\* variant: the closing binaryimage tag is not appended
CloseImage_forgotten ==
    /\ pc = "symbols" /\ fi > Len(funcs)
    /\ pc' = "scripts"
    /\ UNCHANGED <<host, xml, functions, bi, start, size, offset, fi, si, stdout, file, failure>>

\* line 65
CloseImage ==
    /\ pc = "symbols" /\ fi > Len(funcs)
    /\ xml' = Append(xml, ImageClose)
    /\ pc' = "scripts"
    /\ UNCHANGED <<host, functions, bi, start, size, offset, fi, si, stdout, file, failure>>

\* lines 68-76
EmitScript ==
    /\ pc = "scripts" /\ si <= Len(functions)
    /\ xml' = xml \o ScriptLines(functions[si].name)
    /\ si' = si + 1
    /\ UNCHANGED <<host, pc, functions, bi, start, size, offset, fi, stdout, file, failure>>

\* line 78
CloseDocument ==
    /\ pc = "scripts" /\ si > Len(functions)
    /\ xml' = Append(xml, DocClose)
    /\ pc' = "open"
    /\ UNCHANGED <<host, functions, bi, start, size, offset, fi, si, stdout, file, failure>>

\* line 79: open(xml_output, "w") truncates the file
OpenOutput ==
    /\ pc = "open"
    /\ file' = <<>>
    /\ pc' = "write"
    /\ UNCHANGED <<host, xml, functions, bi, start, size, offset, fi, si, stdout, failure>>

\* line 79: open raises (the directory is missing, say)
OpenFails ==
    /\ pc = "open"
    /\ pc' = "aborted"
    /\ failure' = "open"
    /\ UNCHANGED <<host, xml, functions, bi, start, size, offset, fi, si, stdout, file>>

\* line 80
WriteOutput ==
    /\ pc = "write"
    /\ file' = JoinNewline(xml)
    /\ pc' = "report"
    /\ UNCHANGED <<host, xml, functions, bi, start, size, offset, fi, si, stdout, failure>>

\* line 80: the write raises; the file keeps what reached it, here nothing or half
WriteFails ==
    /\ pc = "write"
    /\ \E k \in {0, Len(JoinNewline(xml)) \div 2} : file' = SubSeq(JoinNewline(xml), 1, k)
    /\ pc' = "aborted"
    /\ failure' = "write"
    /\ UNCHANGED <<host, xml, functions, bi, start, size, offset, fi, si, stdout>>

SummaryMessage(lines, nfuncs, path) == <<"Wrote XML", lines, nfuncs, path>>

\* line 81
Report ==
    /\ pc = "report"
    /\ stdout' = Append(stdout, SummaryMessage(Len(xml), Len(functions), xml_output))
    /\ pc' = "done"
    /\ UNCHANGED <<host, xml, functions, bi, start, size, offset, fi, si, file, failure>>

Next ==
    \/ Setup
    \/ SkipUninitialized \/ SkipNonRam \/ SkipLarge \/ BeginBlock
    \/ ReadChunk \/ ReadFails \/ EndBlock \/ BlocksDone
    \/ SkipExternal \/ EmitSymbol \/ CloseImage
    \/ EmitScript \/ CloseDocument
    \/ OpenOutput \/ OpenFails \/ WriteOutput \/ WriteFails
    \/ Report

Spec == Init /\ [][Next]_vars

(***************************************************************************)
(* Reading the document back: what a consumer of the file sees.            *)
(***************************************************************************)
\* the digits a reader of the file accepts: lowercase hexadecimal
HexAlphabet == <<"0","1","2","3","4","5","6","7","8","9","a","b","c","d","e","f">>

HexChars == {HexAlphabet[i] : i \in 1..16}

HexVal(c) == IF c \in HexChars THEN CHOOSE v \in 0..15 : HexAlphabet[v + 1] = c ELSE -1

IsPrefix(p, s) == Len(p) <= Len(s) /\ SubSeq(s, 1, Len(p)) = p

IsSuffix(p, s) == Len(p) <= Len(s) /\ SubSeq(s, Len(s) - Len(p) + 1, Len(s)) = p

IsHexText(l) == Len(l) > 0 /\ \A i \in 1..Len(l) : l[i] \in HexChars

RECURSIVE HexRun(_)
HexRun(s) == IF s = <<>> \/ Head(s) \notin HexChars THEN <<>> ELSE <<Head(s)>> \o HexRun(Tail(s))

RECURSIVE ParseHex(_)
ParseHex(s) == IF s = <<>> THEN 0 ELSE 16 * ParseHex(SubSeq(s, 1, Len(s) - 1)) + HexVal(s[Len(s)])

\* the number in the offset="0x..." attribute that follows the prefix pre
OffsetAttr(l, pre) == ParseHex(HexRun(SubSeq(l, Len(pre) + 1, Len(l))))

IsChunkOpen(l) == IsPrefix(ChunkOpenPre, l) /\ IsSuffix(ChunkOpenPost, l)

IsSymbol(l) == IsPrefix(SymbolPre, l) /\ IsSuffix(SymbolPost, l)

Indices(doc, Test(_)) == SelectSeq([i \in 1..Len(doc) |-> i], LAMBDA i : Test(doc[i]))

ChunkEnd(doc, i) == CHOOSE j \in (i + 1)..Len(doc) : doc[j] = ChunkClose /\ \A m \in (i + 1)..(j - 1) : doc[m] # ChunkClose

ChunkAt(doc, i) == [offset |-> OffsetAttr(doc[i], ChunkOpenPre), lines |-> SubSeq(doc, i + 1, ChunkEnd(doc, i) - 1)]

\* the bytechunk elements of the document, in document order
DocChunks(doc) == LET idx == Indices(doc, IsChunkOpen) IN [k \in 1..Len(idx) |-> ChunkAt(doc, idx[k])]

Decode(hex) == [i \in 1..(Len(hex) \div 2) |-> 16 * HexVal(hex[2 * i - 1]) + HexVal(hex[2 * i])]

ChunkBytes(c) == Decode(JoinEmpty(c.lines))

Unsigned(b) == IF b < 0 THEN b + 256 ELSE b

BlockBytes(b) == [i \in 1..b.size |-> Unsigned(MemByte(b.start + i - 1))]

Exportable(b) == b.init /\ b.space = "ram" /\ b.size <= MAXBLOCK

InBlock(c, b) == c.offset >= b.start /\ c.offset < b.start + b.size

ChunksOf(b) == SelectSeq(DocChunks(xml), LAMBDA c : InBlock(c, b))

\* block k has been passed by the block loop
Passed(k) == k \in 1..Len(blocks) /\ bi > k

\* C1: the chunks emitted for an exportable block partition it: the first
\* starts at the block's start, each holds 1..CHUNK bytes, each next one
\* starts where the previous one ends, there are ceil(size / CHUNK) of them,
\* and their decoded bytes, concatenated, are the block's bytes.
C1_ChunksPartitionBlock ==
    \A k \in 1..Len(blocks) : (Passed(k) /\ Exportable(blocks[k])) =>
        LET b == blocks[k]
            cs == ChunksOf(b)
        IN /\ Len(cs) = (b.size + CHUNK - 1) \div CHUNK
           /\ cs[1].offset = b.start
           /\ \A i \in 1..Len(cs) : Len(ChunkBytes(cs[i])) >= 1 /\ Len(ChunkBytes(cs[i])) <= CHUNK
           /\ \A i \in 1..(Len(cs) - 1) : cs[i + 1].offset = cs[i].offset + Len(ChunkBytes(cs[i]))
           /\ JoinEmpty([i \in 1..Len(cs) |-> ChunkBytes(cs[i])]) = BlockBytes(b)

C1_Witness ==
    /\ pc = "done"
    /\ \E k \in 1..Len(blocks) : Exportable(blocks[k]) /\ blocks[k].size > CHUNK /\ blocks[k].size % CHUNK # 0 /\ Len(ChunksOf(blocks[k])) >= 2

\* the exportable block a chunk element lies in
BlockOfChunk(c) == CHOOSE k \in 1..Len(blocks) : Exportable(blocks[k]) /\ InBlock(c, blocks[k])

\* C7: the hex text of a chunk of n bytes is 2*n lowercase hex characters,
\* byte b (a signed host byte read as 0..255) giving its two zero-padded
\* digits; the text is cut into lines of exactly LINE characters except a
\* possibly shorter last line, and the lines joined and decoded are the bytes.
C7_HexTextOfChunk ==
    \A x \in 1..Len(DocChunks(xml)) :
        LET c == DocChunks(xml)[x]
            text == JoinEmpty(c.lines)
        IN /\ \E k \in 1..Len(blocks) : Exportable(blocks[k]) /\ InBlock(c, blocks[k])
           /\ LET b == blocks[BlockOfChunk(c)]
                  n == Min(CHUNK, b.start + b.size - c.offset)
              IN /\ Len(text) = 2 * n
                 /\ \A j \in 1..Len(text) : text[j] \in HexChars
                 /\ \A j \in 1..n : LET u == Unsigned(MemByte(c.offset + j - 1))
                                    IN HexVal(text[2 * j - 1]) = u \div 16 /\ HexVal(text[2 * j]) = u % 16
                 /\ Len(c.lines) = (2 * n + LINE - 1) \div LINE
                 /\ \A m \in 1..(Len(c.lines) - 1) : Len(c.lines[m]) = LINE
                 /\ Len(c.lines[Len(c.lines)]) >= 1 /\ Len(c.lines[Len(c.lines)]) <= LINE
                 /\ Decode(text) = [j \in 1..n |-> Unsigned(MemByte(c.offset + j - 1))]

C7_Witness ==
    /\ pc = "done"
    /\ \E x \in 1..Len(DocChunks(xml)) :
        LET c == DocChunks(xml)[x]
        IN /\ Len(c.lines) >= 2
           /\ Len(c.lines[Len(c.lines)]) < LINE
           /\ \E j \in 1..Len(ChunkBytes(c)) : MemByte(c.offset + j - 1) < 0
           /\ \E j \in 1..Len(ChunkBytes(c)) : MemByte(c.offset + j - 1) \in 0..15

(***************************************************************************)
(* Functions: symbol lines and script blocks.                              *)
(***************************************************************************)
IsLoFu(l) == IsPrefix(ComLoFuPre, l) /\ IsSuffix(ComPost, l)

IsMatch(l) == IsPrefix(MatchPre, l) /\ IsSuffix(MatchPost, l)

SymbolsFinished == pc \in {"scripts", "open", "write", "report", "done"} \/ (pc = "aborted" /\ failure \in {"open", "write"})

ScriptsFinished == pc \in {"open", "write", "report", "done"} \/ (pc = "aborted" /\ failure \in {"open", "write"})

Scripted(f) == ~f.thunk /\ ~f.external

\* the functions named nm that get a script
ScriptedNamed(nm) == {j \in 1..Len(funcs) : Scripted(funcs[j]) /\ funcs[j].name = nm}

LinesEqual(l) == {i \in 1..Len(xml) : xml[i] = l}

SymbolLinesAt(entry) == {i \in 1..Len(xml) : IsSymbol(xml[i]) /\ OffsetAttr(xml[i], SymbolPre) = entry}

\* C3: an external function, thunk or not, has no symbol line, and no script
\* command or stringmatch stands for it: the lines naming it are no more
\* than the scripted functions that bear the same name.
C3_ExternalNotExported ==
    \A k \in 1..Len(funcs) : funcs[k].external =>
        /\ SymbolLinesAt(funcs[k].entry) = {}
        /\ Cardinality(LinesEqual(ComLoFuPre \o funcs[k].name \o ComPost)) <= Cardinality(ScriptedNamed(funcs[k].name))
        /\ Cardinality(LinesEqual(MatchPre \o funcs[k].name \o MatchMid \o funcs[k].name \o MatchPost)) <= Cardinality(ScriptedNamed(funcs[k].name))
        /\ ScriptsFinished => Cardinality(LinesEqual(ScriptOpen)) = Cardinality({j \in 1..Len(funcs) : Scripted(funcs[j])})

C3_Witness ==
    /\ pc = "done"
    /\ \E k, j \in 1..Len(funcs) : funcs[k].external /\ funcs[k].thunk /\ funcs[j].external /\ ~funcs[j].thunk

\* C4: a thunk that is not external has exactly one symbol line, carrying
\* its entry offset and name, and no script or stringmatch; the symbol lines
\* are the non-external functions and the script list the functions that are
\* neither thunk nor external, both in enumeration order.
C4_ThunkSymbolOnly ==
    /\ \A k \in 1..Len(funcs) : (funcs[k].thunk /\ ~funcs[k].external) =>
        /\ SymbolsFinished => Cardinality(SymbolLinesAt(funcs[k].entry)) = 1
        /\ SymbolsFinished => LinesEqual(SymbolPre \o FmtX(funcs[k].entry) \o SymbolMid \o funcs[k].name \o SymbolPost) = SymbolLinesAt(funcs[k].entry)
        /\ Cardinality(LinesEqual(ComLoFuPre \o funcs[k].name \o ComPost)) <= Cardinality(ScriptedNamed(funcs[k].name))
        /\ Cardinality(LinesEqual(MatchPre \o funcs[k].name \o MatchMid \o funcs[k].name \o MatchPost)) <= Cardinality(ScriptedNamed(funcs[k].name))
    /\ SymbolsFinished =>
        LET idx == Indices(xml, IsSymbol)
            kept == SelectSeq(funcs, LAMBDA f : ~f.external)
        IN [i \in 1..Len(idx) |-> OffsetAttr(xml[idx[i]], SymbolPre)] = [i \in 1..Len(kept) |-> kept[i].entry]
    /\ pc # "start" => functions = SelectSeq(funcs, Scripted)
    /\ ScriptsFinished => Cardinality(LinesEqual(ScriptOpen)) = Len(SelectSeq(funcs, Scripted))

C4_Witness ==
    /\ pc = "done"
    /\ \E k, j \in 1..Len(funcs) : funcs[k].thunk /\ ~funcs[k].external /\ Scripted(funcs[j]) /\ funcs[j].name = funcs[k].name

(***************************************************************************)
(* The order of the document.                                              *)
(***************************************************************************)
ComPre == <<" "," ","<","c","o","m",">">>

\* the section of the document a line belongs to
Rank(l) ==
    CASE l = DocOpen -> 0
      [] IsPrefix(ImageOpenPre, l) -> 1
      [] IsChunkOpen(l) \/ l = ChunkClose \/ IsHexText(l) -> 2
      [] IsSymbol(l) -> 3
      [] l = ImageClose -> 4
      [] l = ScriptOpen \/ IsPrefix(ComPre, l) \/ l = ScriptClose \/ IsMatch(l) -> 5
      [] l = DocClose -> 6
      [] OTHER -> 99

\* the lines of a text: the pieces between its newline characters
SplitLines(text) ==
    LET nl == SelectSeq([i \in 1..Len(text) |-> i], LAMBDA i : text[i] = "\n")
    IN [k \in 1..(Len(nl) + 1) |-> SubSeq(text, IF k = 1 THEN 1 ELSE nl[k - 1] + 1, IF k = Len(nl) + 1 THEN Len(text) ELSE nl[k] - 1)]

\* the start offsets of the chunks of the blocks b[1..n], in block order
RECURSIVE ExpectedOffsets(_, _)
ExpectedOffsets(b, n) == IF n = 0 THEN <<>> ELSE ExpectedOffsets(b, n - 1) \o (IF Exportable(b[n]) THEN [j \in 1..((b[n].size + CHUNK - 1) \div CHUNK) |-> b[n].start + (j - 1) * CHUNK] ELSE <<>>)

DocumentOrdered ==
    pc # "start" =>
        /\ Len(xml) >= 2
        /\ xml[1] = DocOpen
        /\ xml[2] = ImageOpenPre \o lang_id \o <<":">> \o cspec_id \o ImageOpenPost
        /\ \A i \in 1..Len(xml) : Rank(xml[i]) # 99 /\ (Rank(xml[i]) \in {0, 1} <=> i <= 2)
        /\ \A i \in 1..(Len(xml) - 1) : Rank(xml[i]) <= Rank(xml[i + 1])
        /\ pc \in {"blocks", "chunk"} => \A i \in 1..Len(xml) : Rank(xml[i]) <= 2
        /\ pc = "symbols" => \A i \in 1..Len(xml) : Rank(xml[i]) <= 3
        /\ pc = "scripts" => \A i \in 1..Len(xml) : Rank(xml[i]) <= 5
        /\ SymbolsFinished => Cardinality(LinesEqual(ImageClose)) = 1
        /\ ScriptsFinished => Cardinality(LinesEqual(DocClose)) = 1 /\ xml[Len(xml)] = DocClose
        /\ SymbolsFinished \/ pc = "symbols" => [x \in 1..Len(DocChunks(xml)) |-> DocChunks(xml)[x].offset] = ExpectedOffsets(blocks, Len(blocks))
        /\ SymbolsFinished =>
            LET idx == Indices(xml, IsSymbol)
                kept == SelectSeq(funcs, LAMBDA f : ~f.external)
            IN [i \in 1..Len(idx) |-> xml[idx[i]]] = [i \in 1..Len(kept) |-> SymbolPre \o FmtX(kept[i].entry) \o SymbolMid \o kept[i].name \o SymbolPost]
        /\ ScriptsFinished =>
            LET idx == Indices(xml, IsLoFu)
                kept == SelectSeq(funcs, Scripted)
            IN [i \in 1..Len(idx) |-> xml[idx[i]]] = [i \in 1..Len(kept) |-> ComLoFuPre \o kept[i].name \o ComPost]
        /\ pc \in {"report", "done"} => SplitLines(file) = xml

\* C5: the document is the opening tag, the binaryimage tag with
\* arch="languageId:compilerSpecId", the bytechunk blocks in block order, the
\* symbol lines in function order, the closing binaryimage tag, the
\* script+stringmatch pairs in function order, the closing tag; the written
\* file is these lines; and the document only ever grows at its end.
C5_DocumentOrder == [](DocumentOrdered) /\ [][IsPrefix(xml, xml')]_vars

C5_Witness ==
    /\ pc = "done"
    /\ Len(DocChunks(xml)) >= 3
    /\ Len(Indices(xml, IsSymbol)) >= 2
    /\ Len(Indices(xml, IsLoFu)) >= 1
    /\ Len(Indices(xml, IsLoFu)) < Len(Indices(xml, IsSymbol))

\* C6: after the closing binaryimage tag the document holds, for each
\* function that is neither thunk nor external and in their order, the seven
\* lines <script>, lo fu NAME, decompile, print C, quit, </script> and the
\* stringmatch named "NAME output" with min 1, max 100 and content NAME, and
\* nothing else before the closing tag; the summary reports that many functions.
C6_ScriptBlocks ==
    ScriptsFinished =>
        LET kept == SelectSeq(funcs, Scripted)
            close == CHOOSE i \in 1..Len(xml) : xml[i] = ImageClose
            body == SubSeq(xml, close + 1, Len(xml) - 1)
        IN /\ Len(body) = 7 * Len(kept)
           /\ \A j \in 1..Len(kept) :
                /\ body[7 * (j - 1) + 1] = ScriptOpen
                /\ body[7 * (j - 1) + 2] = ComLoFuPre \o kept[j].name \o ComPost
                /\ body[7 * (j - 1) + 3] = ComDecompile
                /\ body[7 * (j - 1) + 4] = ComPrintC
                /\ body[7 * (j - 1) + 5] = ComQuit
                /\ body[7 * (j - 1) + 6] = ScriptClose
                /\ body[7 * (j - 1) + 7] = MatchPre \o kept[j].name \o MatchMid \o kept[j].name \o MatchPost
           /\ Cardinality(LinesEqual(ScriptOpen)) = Len(kept)
           /\ pc = "done" => /\ stdout # <<>>
                             /\ stdout[Len(stdout)][1] = "Wrote XML"
                             /\ stdout[Len(stdout)][2] = Len(xml)
                             /\ stdout[Len(stdout)][3] = Cardinality(LinesEqual(ScriptOpen))

C6_Witness ==
    /\ pc = "done"
    /\ Len(SelectSeq(funcs, Scripted)) = 1
    /\ Len(funcs) = 2
    /\ Cardinality(LinesEqual(ScriptOpen)) = 1

\* a line carries the structural characters of its format string and no more
CountChar(l, ch) == Cardinality({i \in 1..Len(l) : l[i] = ch})

WellFormedLine(l, lt, gt, quot) == CountChar(l, "<") = lt /\ CountChar(l, ">") = gt /\ CountChar(l, "\"") = quot /\ CountChar(l, "&") = 0

\* C8: function names are escaped before they are embedded: no symbol line,
\* lo fu command or stringmatch element carries a raw < > & or " that comes
\* from a function name.
C8_NamesEscaped ==
    \A i \in 1..Len(xml) :
        /\ IsSymbol(xml[i]) => WellFormedLine(xml[i], 1, 1, 6)
        /\ IsLoFu(xml[i]) => WellFormedLine(xml[i], 2, 2, 0)
        /\ IsMatch(xml[i]) => WellFormedLine(xml[i], 2, 2, 6)

(***************************************************************************)
(* Failures and omissions.                                                 *)
(***************************************************************************)
IsSummary(m) == m[1] = "Wrote XML"

\* C9: when a memory read fails the run stops there: it is aborted with
\* nothing left to do, in the middle of an exportable block, the document has
\* no symbol, closing binaryimage or script line, the file at the output
\* path is what it was, and no summary is printed.
C9_ReadFailureAborts ==
    failure = "read" =>
        /\ pc = "aborted"
        /\ ~ENABLED Next
        /\ bi \in 1..Len(blocks) /\ Exportable(blocks[bi]) /\ offset < size
        /\ fi = 1 /\ si = 1
        /\ \A i \in 1..Len(xml) : Rank(xml[i]) <= 2
        /\ file = StaleFile
        /\ \A m \in 1..Len(stdout) : ~IsSummary(stdout[m])

C9_Witness ==
    /\ failure = "read"
    /\ offset > 0
    /\ bi < Len(blocks)
    /\ Len(funcs) > 0

DiagnosticsFor(b) == {m \in 1..Len(stdout) : stdout[m] = <<"Skipping large block", b.name, b.start, b.size>>}

C10_Original ==
    \A k \in 1..Len(blocks) : (Passed(k) /\ ~Exportable(blocks[k])) =>
        /\ ChunksOf(blocks[k]) = <<>>
        /\ DiagnosticsFor(blocks[k]) # {}

\* C10: a block omitted by policy leaves no chunk in the document and the
\* run goes on; it is logged exactly when it is an initialized ram block over
\* the cap, uninitialized and non-ram blocks being skipped silently; every
\* chunk of the document lies in an exportable block.
C10_OmissionsSilentButOversized ==
    /\ \A k \in 1..Len(blocks) : (Passed(k) /\ ~Exportable(blocks[k])) =>
        /\ ChunksOf(blocks[k]) = <<>>
        /\ DiagnosticsFor(blocks[k]) # {} <=> (blocks[k].init /\ blocks[k].space = "ram")
    /\ \A x \in 1..Len(DocChunks(xml)) : \E k \in 1..Len(blocks) : Exportable(blocks[k]) /\ InBlock(DocChunks(xml)[x], blocks[k])
    /\ Cardinality({m \in 1..Len(stdout) : ~IsSummary(stdout[m])}) = Cardinality({k \in 1..Len(blocks) : Passed(k) /\ blocks[k].init /\ blocks[k].space = "ram" /\ blocks[k].size > MAXBLOCK})
    /\ (pc = "aborted" /\ failure = "read") => Exportable(blocks[bi])

C10_Witness ==
    /\ pc = "done"
    /\ Len(blocks) = 2
    /\ ~blocks[1].init \/ blocks[1].space # "ram"
    /\ Exportable(blocks[2]) /\ ChunksOf(blocks[2]) # <<>>

====
